---- MODULE Spec2Model ----
(***************************************************************************)
(* EDH dashboard: the two dataset variants of the application.             *)
(*   app = "csv"   src/src/App.jsx       (delimited source, parseCSV)      *)
(*   app = "xlsx"  src/unnamed/part_000  (spreadsheet source, parseXLSX)   *)
(* A JavaScript value is a tagged record: Undef, Null, Str(chars), Num(n). *)
(* A string is a sequence of one-character strings, so that trim, parseInt *)
(* and String() are computed character by character.                       *)
(*                                                                         *)
(* Inputs the model draws: cells of the delimited source are strings or    *)
(* absent; cells of the workbook are strings, integers or absent, with     *)
(* Commander, PlayerName, Theme, Location and Notes strings or absent (on  *)
(* a number .trim / .split throws and the load ends in its catch, which is *)
(* LoadFail).  Not drawn: numerals with a 0x prefix, fractional numbers,   *)
(* and a DeckID that names a member of Object.prototype ("constructor",    *)
(* "toString", ...), which deckStats = {} resolves to an inherited         *)
(* function instead of a tally; the same holds for theme tags and          *)
(* commander names as keys of the tallies and of the card cache.           *)
(*                                                                         *)
(* The card lookups of part_000 run against a card service whose answer to *)
(* each request is drawn from Responses: a network error, a response that  *)
(* is not OK, an error object, or the card the service knows by the name.  *)
(* A request is in flight from the call of fetchOne until fetchOne         *)
(* settles; the 100 ms pause is the step in which its timer fires.         *)
(***************************************************************************)
EXTENDS Integers, Sequences, FiniteSets, TLC

VARIABLES
  app,           \* which program runs: "csv" or "xlsx"
  loading,       \* useState(true)
  data,          \* csv: the rows Papa.parse returned for the fetched text
  wb,            \* xlsx: the sheets of the fetched workbook
  decks,         \* useState([])
  players,       \* xlsx: useState([])
  sessions,      \* xlsx: useState([])
  activePlayer,  \* useState('All')
  deckSort,      \* useState('games')
  showUnplayed,  \* useState(false)
  winBar,        \* the last WinBar({wins, games}) render: its props and wr
  cardImages,    \* xlsx: useState({}), commander name -> art_crop URL
  cardColors,    \* xlsx: useState({}), commander name -> color_identity
  effectPending, \* xlsx: the last commit changed a dependency of the [decks] effect
  run,           \* xlsx: run() of the [decks] effect: where it stands, unique, i,
                 \*   the promises of the batch it awaits
  lookups,       \* xlsx: per commander name, the requests sent for it so far
                 \*   and what the last fetchOne(name) resolved to
  runs           \* xlsx: the calls of run() so far

\* the state of the card lookups
enrichVars == << cardImages, cardColors, effectPending, run, lookups, runs >>

vars == << app, loading, data, wb, decks, players, sessions,
           activePlayer, deckSort, showUnplayed, winBar,
           cardImages, cardColors, effectPending, run, lookups, runs >>

-----------------------------------------------------------------------------
(* Bounds of the model.                                                    *)

MaxCsvRows  == 3   \* rows of the delimited source
MaxDeckRows == 2   \* rows of the Decks sheet
MaxGameRows == 3   \* rows of the Game Players sheet
MaxPlayRows == 4   \* rows of the Game Players sheet behind the dashboard views
MaxStat     == 8   \* |wins|, |games| handed to WinBar

-----------------------------------------------------------------------------
(* JavaScript values.                                                      *)

Undef  == [t |-> "undefined"]
Null   == [t |-> "null"]
\* (the payload field is named by the type, so that values of different types
\* are told apart by their fields alone)
Str(s) == [t |-> "string", s |-> s]
Num(n) == [t |-> "number", n |-> n]

IsStr(x) == x.t = "string"
IsNum(x) == x.t = "number"
Nullish(x) == x.t \in {"undefined", "null"}

\* a === b on the values above
StrictEq(a, b) == /\ a.t = b.t
                  /\ CASE IsStr(a) -> a.s = b.s
                       [] IsNum(a) -> a.n = b.n
                       [] OTHER    -> TRUE

\* Boolean(x): undefined, null, '' and 0 are falsy
Truthy(x) == CASE Nullish(x) -> FALSE
               [] IsStr(x)   -> x.s # <<>>
               [] IsNum(x)   -> x.n # 0

WhiteSpace == {" ", "\t"}

DigitChars == <<"0", "1", "2", "3", "4", "5", "6", "7", "8", "9">>

IsDigit(c) == \E i \in 1..10 : DigitChars[i] = c

DigitVal(c) == (CHOOSE i \in 1..10 : DigitChars[i] = c) - 1

RECURSIVE TrimStart(_)
TrimStart(s) == IF s # <<>> /\ Head(s) \in WhiteSpace THEN TrimStart(Tail(s)) ELSE s

RECURSIVE TrimEnd(_)
TrimEnd(s) == IF s # <<>> /\ s[Len(s)] \in WhiteSpace
              THEN TrimEnd(SubSeq(s, 1, Len(s) - 1))
              ELSE s

\* String.prototype.trim
Trim(s) == TrimEnd(TrimStart(s))

\* x?.trim() for x a string or undefined
OptTrim(x) == IF Nullish(x) THEN Undef ELSE Str(Trim(x.s))

RECURSIVE NatToStr(_)
NatToStr(n) == IF n < 10 THEN <<DigitChars[n + 1]>>
               ELSE NatToStr(n \div 10) \o <<DigitChars[(n % 10) + 1]>>

\* String(x), also the property key x is coerced to in obj[x]
ToStr(x) == CASE x.t = "undefined" -> <<"u","n","d","e","f","i","n","e","d">>
              [] x.t = "null"      -> <<"n","u","l","l">>
              [] IsStr(x)          -> x.s
              [] IsNum(x)          -> IF x.n < 0 THEN <<"-">> \o NatToStr(-x.n)
                                      ELSE NatToStr(x.n)

\* the leading run of decimal digits of s, as a number; acc is the value so far
RECURSIVE DigitRun(_, _)
DigitRun(s, acc) == IF s # <<>> /\ IsDigit(Head(s))
                    THEN DigitRun(Tail(s), 10 * acc + DigitVal(Head(s)))
                    ELSE acc

\* parseInt(x): [nan |-> TRUE] for NaN, else [nan |-> FALSE, v |-> integer]
parseInt(x) ==
  LET s    == TrimStart(ToStr(x))
      neg  == s # <<>> /\ Head(s) = "-"
      body == IF s # <<>> /\ Head(s) \in {"-", "+"} THEN Tail(s) ELSE s
  IN  IF body = <<>> \/ ~IsDigit(Head(body))
      THEN [nan |-> TRUE]
      ELSE [nan |-> FALSE, v |-> IF neg THEN -DigitRun(body, 0) ELSE DigitRun(body, 0)]

\* n || 0 for n a parseInt result: NaN and 0 are falsy
OrZero(n) == IF n.nan THEN 0 ELSE n.v

-----------------------------------------------------------------------------
(* Helpers (both programs).                                                *)

\* winRate with Math.floor in the place of Math.round
winRateFloor(wins, games) ==
  IF games = 0 THEN 0
  ELSE IF games > 0 THEN (100 * wins) \div games
  ELSE (-(100 * wins)) \div (-games)

\* winRate(wins, games): Math.round(x) is floor(x + 1/2); here x = 100*wins/games,
\* so floor((200*wins + games) / (2*games)), the quotient taken with a positive
\* divisor.  Within MaxStat the double arithmetic of the source is exact at
\* every half-way case (they need games divisible by 8, and eighths are dyadic).
winRate(wins, games) ==
  IF games = 0 THEN 0
  ELSE IF games > 0 THEN (200 * wins + games) \div (2 * games)
  ELSE (-(200 * wins) - games) \div (-(2 * games))

\* Excel's epoch offset, seconds per day, milliseconds per second
EpochOffsetDays == 25569
SecondsPerDay   == 86400
MsPerSecond     == 1000

\* excelDateToJS(serial), serial an integer cell or absent
excelDateToJS(serial) ==
  IF Truthy(serial)
  THEN [t |-> "date", ms |-> (serial.n - EpochOffsetDays) * SecondsPerDay * MsPerSecond]
  ELSE Null

\* Array.prototype.filter / map over a sequence
RECURSIVE SumOf(_)
SumOf(ns) == IF ns = <<>> THEN 0 ELSE Head(ns) + SumOf(Tail(ns))

\* s.split(',') for a non-empty string: cur is the piece being read
RECURSIVE SplitComma(_, _)
SplitComma(s, cur) ==
  IF s = <<>> THEN <<cur>>
  ELSE IF Head(s) = "," THEN <<cur>> \o SplitComma(Tail(s), <<>>)
  ELSE SplitComma(Tail(s), Append(cur, Head(s)))

-----------------------------------------------------------------------------
(* parseCSV (src/src/App.jsx).                                             *)

\* seen.set(key, row) on a Map kept as its entries in insertion order: an
\* existing key keeps its position and takes the new row
MapSet(seen, key, row) ==
  IF \E i \in 1..Len(seen) : StrictEq(seen[i].key, key)
  THEN [i \in 1..Len(seen) |->
          IF StrictEq(seen[i].key, key) THEN [key |-> key, row |-> row] ELSE seen[i]]
  ELSE Append(seen, [key |-> key, row |-> row])

\* data.forEach(row => seen.set(row.DeckID, row)), rows taken left to right
RECURSIVE SeenAfter(_, _)
SeenAfter(seen, rows) ==
  IF rows = <<>> THEN seen
  ELSE SeenAfter(MapSet(seen, Head(rows).DeckID, Head(rows)), Tail(rows))

\* the object built from one row of the delimited source
CsvDeck(row) ==
  [ id        |-> OptTrim(row.DeckID),
    commander |-> OptTrim(row.Commander),
    player    |-> OptTrim(row.PlayerName),
    games     |-> OrZero(parseInt(row.TotalGames)),
    wins      |-> OrZero(parseInt(row.Wins)),
    losses    |-> OrZero(parseInt(row.Losses)) ]

parseCSV(rows) ==
  LET seen == SeenAfter(<<>>, rows)
  IN  [i \in 1..Len(seen) |-> CsvDeck(seen[i].row)]

-----------------------------------------------------------------------------
(* parseXLSX (src/unnamed/part_000).                                       *)

\* the placeholder character of the source (an em dash)
DASH == <<"EMDASH">>

\* sheet('Players').map(r => r.PlayerName?.trim()).filter(Boolean)
PlayersOf(sheet) ==
  LET names == [i \in 1..Len(sheet) |-> OptTrim(sheet[i].PlayerName)]
  IN  SelectSeq(names, Truthy)

ZeroStats == [games |-> 0, wins |-> 0, losses |-> 0]

\* deckStats[key], or absent
HasStats(deckStats, key) == \E i \in 1..Len(deckStats) : deckStats[i].key = key

StatsAt(deckStats, key) ==
  LET i == CHOOSE j \in 1..Len(deckStats) : deckStats[j].key = key
  IN  deckStats[i].stats

\* Tally that creates the entry of a deck on its first row without counting
\* that row's game
TallyMissesFirstGame(deckStats, row) ==
  IF ~Truthy(row.DeckID) THEN deckStats
  ELSE LET key  == ToStr(row.DeckID)
           new  == ~HasStats(deckStats, key)
           init == IF new THEN Append(deckStats, [key |-> key, stats |-> ZeroStats])
                   ELSE deckStats
           win  == IF StrictEq(row.WinFlag, Num(1)) THEN 1 ELSE 0
           loss == IF StrictEq(row.WinFlag, Num(0)) THEN 1 ELSE 0
       IN  [i \in 1..Len(init) |->
              IF init[i].key = key
              THEN [key |-> key,
                    stats |-> [games  |-> init[i].stats.games + (IF new THEN 0 ELSE 1),
                               wins   |-> init[i].stats.wins + win,
                               losses |-> init[i].stats.losses + loss]]
              ELSE init[i]]

\* one Game Players row tallied into deckStats (an object: keys are strings)
Tally(deckStats, row) ==
  IF ~Truthy(row.DeckID) THEN deckStats
  ELSE LET key  == ToStr(row.DeckID)
           init == IF HasStats(deckStats, key) THEN deckStats
                   ELSE Append(deckStats, [key |-> key, stats |-> ZeroStats])
           win  == IF StrictEq(row.WinFlag, Num(1)) THEN 1 ELSE 0
           loss == IF StrictEq(row.WinFlag, Num(0)) THEN 1 ELSE 0
       IN  [i \in 1..Len(init) |->
              IF init[i].key = key
              THEN [key |-> key,
                    stats |-> [games  |-> init[i].stats.games + 1,
                               wins   |-> init[i].stats.wins + win,
                               losses |-> init[i].stats.losses + loss]]
              ELSE init[i]]

\* sheet('Game Players').forEach(...)
RECURSIVE DeckStatsAfter(_, _)
DeckStatsAfter(deckStats, rows) ==
  IF rows = <<>> THEN deckStats
  ELSE DeckStatsAfter(Tally(deckStats, Head(rows)), Tail(rows))

\* row.Theme ? row.Theme.split(',').map(t => t.trim()).filter(Boolean) : []
ThemesOf(theme) ==
  IF ~Truthy(theme) THEN <<>>
  ELSE LET parts   == SplitComma(theme.s, <<>>)
           trimmed == [i \in 1..Len(parts) |-> Trim(parts[i])]
       IN  SelectSeq(trimmed, LAMBDA t : t # <<>>)

\* x ?? y
Coalesce(x, y) == IF Nullish(x) THEN y ELSE x

\* XlsxDeck that falls back to totals carried by the deck row when the deck
\* has no entry in deckStats
XlsxDeckRowTotals(row, deckStats) ==
  LET key   == ToStr(row.DeckID)
      stats == IF HasStats(deckStats, key) THEN StatsAt(deckStats, key)
               ELSE [games  |-> IF IsNum(row.TotalGames) THEN row.TotalGames.n ELSE 0,
                     wins   |-> IF IsNum(row.Wins) THEN row.Wins.n ELSE 0,
                     losses |-> 0]
  IN  [ id          |-> Str(Trim(ToStr(Coalesce(row.DeckID, Str(<<>>))))),
        commander   |-> Coalesce(OptTrim(row.Commander), Str(DASH)),
        player      |-> Coalesce(OptTrim(row.PlayerName), Str(DASH)),
        themes      |-> ThemesOf(row.Theme),
        power       |-> Coalesce(row.EstPower, Null),
        archidektId |-> IF Nullish(row.ArchidektID) THEN Null
                        ELSE Str(Trim(ToStr(row.ArchidektID))),
        games       |-> stats.games,
        wins        |-> stats.wins,
        losses      |-> stats.losses ]

\* the object built from one row of the Decks sheet
XlsxDeck(row, deckStats) ==
  LET key   == ToStr(row.DeckID)
      stats == IF HasStats(deckStats, key) THEN StatsAt(deckStats, key) ELSE ZeroStats
  IN  [ id          |-> Str(Trim(ToStr(Coalesce(row.DeckID, Str(<<>>))))),
        commander   |-> Coalesce(OptTrim(row.Commander), Str(DASH)),
        player      |-> Coalesce(OptTrim(row.PlayerName), Str(DASH)),
        themes      |-> ThemesOf(row.Theme),
        power       |-> Coalesce(row.EstPower, Null),
        archidektId |-> IF Nullish(row.ArchidektID) THEN Null
                        ELSE Str(Trim(ToStr(row.ArchidektID))),
        games       |-> stats.games,
        wins        |-> stats.wins,
        losses      |-> stats.losses ]

\* x || null
OrNull(x) == IF Truthy(x) THEN x ELSE Null

\* the object built from one row of the Games sheet
XlsxSession(row) ==
  [ id       |-> row.GameID,
    date     |-> excelDateToJS(row.Date),
    location |-> OrNull(OptTrim(row.Location)),
    players  |-> Coalesce(row.TotalPlayers, Num(0)),
    notes    |-> OrNull(OptTrim(row.Notes)) ]

parseXLSX(book) ==
  LET deckStats == DeckStatsAfter(<<>>, book.GamePlayers)
  IN  [ decks    |-> [i \in 1..Len(book.Decks) |-> XlsxDeck(book.Decks[i], deckStats)],
        players  |-> PlayersOf(book.Players),
        sessions |-> [i \in 1..Len(book.Games) |-> XlsxSession(book.Games[i])] ]

-----------------------------------------------------------------------------
(* The fetched payloads the model draws from.                              *)

Shane    == <<"S","h","a","n","e">>
Nick     == <<"N","i","c","k">>
Chavez   == <<"C","h","a","v","e","z">>
Isaac    == <<"I","s","a","a","c">>
Mark     == <<"M","a","r","k">>
Franklin == <<"F","r","a","n","k","l","i","n">>
JonPaul  == <<"J","o","n"," ","P","a","u","l">>

\* Object.keys(PLAYER_HEX)
PLAYER_HEX_keys ==
  << Str(Shane), Str(Nick), Str(Chavez), Str(Isaac), Str(Mark), Str(Franklin),
     Str(JonPaul) >>

All == <<"A","l","l">>

Atraxa == <<"A","t","r","a","x","a">>
Krenko == <<"K","r","e","n","k","o">>

CsvRow(id, commander, player, games, wins, losses) ==
  [ DeckID |-> id, Commander |-> commander, PlayerName |-> player,
    TotalGames |-> games, Wins |-> wins, Losses |-> losses ]

\* Rows of the delimited source behind the dashboard views: a plain row
\* without a Losses cell, a padded DeckID and player name, a row with no cells
\* but a non-numeric one, an unplayed deck, a deck that ties another on wins
AppCsvRows ==
  { CsvRow(Str(<<"A">>), Str(Atraxa), Str(Shane), Str(<<"5">>), Str(<<"2">>), Undef),
    CsvRow(Str(<<"A"," ">>), Str(<<" ">> \o Krenko), Str(Nick \o <<" ">>),
           Str(<<" ","2">>), Str(<<"2">>), Str(<<>>)),
    CsvRow(Undef, Undef, Undef, Str(<<"x">>), Str(<<>>), Undef),
    CsvRow(Str(<<"B">>), Str(Atraxa), Str(Nick), Str(<<"0">>), Str(<<"0">>), Str(<<"0">>)),
    CsvRow(Str(<<"D">>), Str(Atraxa), Str(Nick), Str(<<"1","0">>), Str(<<"2">>), Str(<<"8">>)) }

\* Rows of the delimited source for normalize: those, a second row for DeckID
\* A, and totals that do not add up
CsvRows ==
  AppCsvRows \cup
  { CsvRow(Str(<<"A">>), Str(Krenko), Str(Nick), Str(<<"3">>), Str(<<"1">>), Str(<<"1">>)),
    CsvRow(Str(<<"C">>), Str(Krenko), Str(JonPaul), Str(<<"1">>), Str(<<"3">>), Str(<<"-","1">>)) }

\* the sequences over S of length at most n
SeqsUpTo(S, n) == UNION { [1..k -> S] : k \in 0..n }

CsvPayloads == SeqsUpTo(CsvRows, MaxCsvRows)

AppCsvPayloads == SeqsUpTo(AppCsvRows, MaxCsvRows)

DeckRow(id, commander, player, theme, games, wins) ==
  [ DeckID |-> id, Commander |-> commander, PlayerName |-> player, Theme |-> theme,
    EstPower |-> Undef, ArchidektID |-> Undef, TotalGames |-> games, Wins |-> wins ]

Aggro        == <<"A","g","g","r","o">>
Control      == <<"C","o","n","t","r","o","l">>
AggroControl == Aggro \o <<","," ">> \o Control \o <<",">>
ControlTwice == Control \o <<",">> \o Control

\* Rows of the Decks sheet: a row that carries totals of its own, a second row
\* for the same DeckID, a padded DeckID, a numeric DeckID 0 without names, a
\* second deck whose Theme cell names one tag twice.
DeckRows ==
  { DeckRow(Str(<<"A">>), Str(Atraxa), Str(Shane), Str(Aggro), Num(5), Num(2)),
    DeckRow(Str(<<"A">>), Str(Krenko), Str(Nick), Str(AggroControl), Undef, Undef),
    DeckRow(Str(<<"A"," ">>), Str(<<" ">> \o Krenko), Str(Nick \o <<" ">>), Undef, Undef, Undef),
    DeckRow(Num(0), Undef, Undef, Str(<<>>), Undef, Undef),
    DeckRow(Str(<<"B">>), Str(Krenko), Str(Nick), Str(ControlTwice), Undef, Undef) }

GameRow(id, flag) == [ DeckID |-> id, WinFlag |-> flag ]

\* Rows of the Game Players sheet: a win, a loss and an unflagged game of deck
\* A, a win under the numeric DeckID 0
GameRows ==
  { GameRow(Str(<<"A">>), Num(1)), GameRow(Str(<<"A">>), Num(0)),
    GameRow(Str(<<"A">>), Undef), GameRow(Num(0), Num(1)) }

PlayerRow(name) == [ PlayerName |-> name ]

SessionRow(id, date, location) ==
  [ GameID |-> id, Date |-> date, Location |-> location, TotalPlayers |-> Undef,
    Notes |-> Undef ]

\* The Players and Games sheets that come with the sheets above: none, or a
\* player list with a padded and a blank name and two sessions
OtherSheets ==
  { [ Players |-> <<>>, Games |-> <<>> ],
    [ Players |-> << PlayerRow(Str(Nick)), PlayerRow(Str(<<" ">> \o Shane)),
                     PlayerRow(Undef), PlayerRow(Str(<<" ">>)) >>,
      Games   |-> << SessionRow(Num(1), Num(EpochOffsetDays + 1), Str(<<" ">>)),
                     SessionRow(Num(2), Undef, Undef) >> ] }

Workbook(other, deckRows, gameRows) ==
  [ Players |-> other.Players, Decks |-> deckRows, Games |-> other.Games,
    GamePlayers |-> gameRows ]

XlsxPayloads ==
  { Workbook(o, d, g) : o \in OtherSheets, d \in SeqsUpTo(DeckRows, MaxDeckRows),
                        g \in SeqsUpTo(GameRows, MaxGameRows) }

EmptyWorkbook == [ Players |-> <<>>, Decks |-> <<>>, Games |-> <<>>, GamePlayers |-> <<>> ]

-----------------------------------------------------------------------------
(* The application shell: state, the load effect, the controls.            *)

\* {}: an object without entries (objects are functions from their keys)
NoEntries == [n \in {} |-> Null]

\* an effect with the dependencies [decks, cardImages, cardColors]
EffectDepsWithCache(decksChanged, cacheChanged) == decksChanged \/ cacheChanged

\* the effect of useEffect(..., [decks]) is scheduled by a commit that changed
\* decks; a commit that changed only cardImages or cardColors leaves it alone
EffectDeps(decksChanged, cacheChanged) == decksChanged

\* the initial state is the one after the mount effects: the source is being
\* fetched, the [decks] effect has run on decks = [] and returned at once
Init ==
  /\ app \in {"csv", "xlsx"}
  /\ loading = TRUE
  /\ data = <<>>
  /\ wb = EmptyWorkbook
  /\ decks = <<>>
  /\ players = <<>>
  /\ sessions = <<>>
  /\ activePlayer = Str(All)
  /\ deckSort = "games"
  /\ showUnplayed = FALSE
  /\ winBar = [wins |-> 0, games |-> 0, wr |-> 0]
  /\ cardImages = NoEntries
  /\ cardColors = NoEntries
  /\ effectPending = FALSE
  /\ run = [pc |-> "idle", unique |-> <<>>, i |-> 0, pending |-> {}, results |-> NoEntries]
  /\ lookups = NoEntries
  /\ runs = 0

\* .then(raw => { setDecks(parseCSV(raw)); setLoading(false) })
LoadCSV(payloads) ==
  /\ app = "csv"
  /\ loading
  /\ \E rows \in payloads :
       /\ data' = rows
       /\ decks' = parseCSV(rows)
  /\ loading' = FALSE
  /\ UNCHANGED << app, wb, players, sessions, activePlayer, deckSort, showUnplayed, winBar >>
  /\ UNCHANGED enrichVars

\* .then(buf => { const {decks, players, sessions} = parseXLSX(buf); set...; setLoading(false) })
LoadXLSX(payloads) ==
  /\ app = "xlsx"
  /\ loading
  /\ \E book \in payloads :
       LET out == parseXLSX(book)
       IN  /\ wb' = book
           /\ decks' = out.decks
           /\ players' = out.players
           /\ sessions' = out.sessions
  /\ loading' = FALSE
  /\ effectPending' = EffectDeps(TRUE, FALSE)
  /\ UNCHANGED << app, data, activePlayer, deckSort, showUnplayed, winBar >>
  /\ UNCHANGED << cardImages, cardColors, run, lookups, runs >>

\* a failure path that has stored the rows of the Decks sheet before it fails
LoadFailAfterSetDecks ==
  /\ loading
  /\ loading' = FALSE
  /\ \E rows \in {<<>>, << [DeckID |-> Undef] >>} : decks' = rows
  /\ UNCHANGED << app, data, wb, players, sessions, activePlayer, deckSort,
                  showUnplayed, winBar >>
  /\ UNCHANGED enrichVars

\* .catch(() => setLoading(false)): the fetch or the decoding failed
LoadFail ==
  /\ loading
  /\ loading' = FALSE
  /\ UNCHANGED << app, data, wb, decks, players, sessions, activePlayer, deckSort,
                  showUnplayed, winBar >>
  /\ UNCHANGED enrichVars

\* The workbooks behind the dashboard views: three decks of two owners and one
\* unlisted owner, a player without decks, and wins and losses of decks A, B
AppDeckSheets ==
  { << DeckRow(Str(<<"A">>), Str(Atraxa), Str(Shane), Undef, Undef, Undef),
       DeckRow(Str(<<"B">>), Str(Krenko), Str(Nick), Undef, Undef, Undef),
       DeckRow(Str(<<"C">>), Str(Krenko), Undef, Undef, Undef, Undef) >> }

AppOtherSheets ==
  { [ Players |-> << PlayerRow(Str(Shane)), PlayerRow(Str(Nick)) >>, Games |-> <<>> ],
    [ Players |-> << PlayerRow(Str(Mark)), PlayerRow(Str(Nick)), PlayerRow(Str(Shane)) >>,
      Games   |-> << SessionRow(Num(1), Num(EpochOffsetDays + 1), Undef) >> ] }

AppGameRows ==
  { GameRow(Str(<<"A">>), Num(1)), GameRow(Str(<<"A">>), Num(0)),
    GameRow(Str(<<"B">>), Num(1)), GameRow(Str(<<"B">>), Num(0)) }

AppXlsxPayloads ==
  { Workbook(o, d, g) : o \in AppOtherSheets, d \in AppDeckSheets,
                        g \in SeqsUpTo(AppGameRows, MaxPlayRows) }

\* the names the player pills offer
KnownPlayers == IF app = "csv" THEN PLAYER_HEX_keys ELSE players

\* onClick={() => setActive(p)} of a player pill, 'All' included; the controls
\* are rendered once loading is false
SetActive ==
  /\ ~loading
  /\ \E p \in {Str(All)} \cup { KnownPlayers[i] : i \in 1..Len(KnownPlayers) } :
       activePlayer' = p
  /\ UNCHANGED << app, loading, data, wb, decks, players, sessions, deckSort,
                  showUnplayed, winBar >>
  /\ UNCHANGED enrichVars

\* onClick={() => setSort(key)} of a sort button
SetSort ==
  /\ ~loading
  /\ \E k \in {"games", "wins", "winrate"} : deckSort' = k
  /\ UNCHANGED << app, loading, data, wb, decks, players, sessions, activePlayer,
                  showUnplayed, winBar >>
  /\ UNCHANGED enrichVars

\* setUnplayed(v => !v)
ToggleUnplayed ==
  /\ ~loading
  /\ showUnplayed' = ~showUnplayed
  /\ UNCHANGED << app, loading, data, wb, decks, players, sessions, activePlayer,
                  deckSort, winBar >>
  /\ UNCHANGED enrichVars

\* WinBar({wins, games}): const wr = winRate(wins, games)
WinBar ==
  /\ \E w \in -MaxStat..MaxStat, g \in -MaxStat..MaxStat :
       winBar' = [wins |-> w, games |-> g, wr |-> winRate(w, g)]
  /\ UNCHANGED << app, loading, data, wb, decks, players, sessions, activePlayer,
                  deckSort, showUnplayed >>
  /\ UNCHANGED enrichVars

-----------------------------------------------------------------------------
(* The card lookups (part_000 only).                                       *)

BATCH == 5

MaxEnrichDecks == 8   \* rows of the Decks sheet behind the card lookups

Tymna         == <<"T","y","m","n","a">>
TymnaThrasios == Tymna \o <<" ","/"," ","T","h","r","a","s","i","o","s">>
Kozilek       == <<"K","o","z","i","l","e","k">>
Dina          == <<"D","i","n","a">>
Edgar         == <<"E","d","g","a","r">>

\* The Decks sheet behind the lookups is a prefix of this list: a commander
\* used by two decks, a deck without a Commander cell, a blank Commander cell,
\* a partner pair, and enough names for a second batch
EnrichDeckList ==
  << DeckRow(Str(<<"A">>), Str(Atraxa), Str(Shane), Undef, Undef, Undef),
     DeckRow(Str(<<"B">>), Str(Krenko), Str(Nick), Undef, Undef, Undef),
     DeckRow(Str(<<"C">>), Str(Atraxa), Str(Nick), Undef, Undef, Undef),
     DeckRow(Str(<<"D">>), Undef, Str(Nick), Undef, Undef, Undef),
     DeckRow(Str(<<"E">>), Str(<<" ">>), Str(Shane), Undef, Undef, Undef),
     DeckRow(Str(<<"F">>), Str(TymnaThrasios), Str(Shane), Undef, Undef, Undef),
     DeckRow(Str(<<"G">>), Str(Kozilek), Str(Nick), Undef, Undef, Undef),
     DeckRow(Str(<<"H">>), Str(Dina), Str(Shane), Undef, Undef, Undef),
     DeckRow(Str(<<"I">>), Str(Edgar), Str(Nick), Undef, Undef, Undef),
     DeckRow(Str(<<"J">>), Str(Tymna), Str(Nick), Undef, Undef, Undef) >>

EnrichDeckSheets ==
  { SubSeq(EnrichDeckList, 1, n) :
      n \in 0..(IF MaxEnrichDecks < Len(EnrichDeckList) THEN MaxEnrichDecks
                ELSE Len(EnrichDeckList)) }

\* the Game Players sheet: empty, or three games of deck A and one of deck B
EnrichGameSheets ==
  { <<>>,
    << GameRow(Str(<<"A">>), Num(1)), GameRow(Str(<<"A">>), Num(0)),
       GameRow(Str(<<"B">>), Num(0)), GameRow(Str(<<"A">>), Num(1)) >> }

EnrichPayloads ==
  { Workbook([ Players |-> << PlayerRow(Str(Shane)), PlayerRow(Str(Nick)) >>,
               Games |-> <<>> ], d, g) :
      d \in EnrichDeckSheets, g \in EnrichGameSheets }

\* s.split('/')[0]
RECURSIVE BeforeSlash(_)
BeforeSlash(s) ==
  IF s = <<>> \/ Head(s) = "/" THEN <<>> ELSE <<Head(s)>> \o BeforeSlash(Tail(s))

\* name.split('/')[0].split(' // ')[0].trim(): what is left of the first '/'
\* holds no ' // ', so the second split returns it whole
Query(name) == Trim(BeforeSlash(name))

\* The answers of the card service.  A request ends in a network error, in a
\* response that is not OK, or in a JSON body; the body is an error object or
\* a card.  A card carries its art under image_uris, under card_faces[0], or
\* not at all, and its color_identity.
Throws   == [kind |-> "throw"]
NotOk    == [kind |-> "response", ok |-> FALSE]
Body(card) == [kind |-> "response", ok |-> TRUE, card |-> card]

ErrorObject == [object |-> "error"]

Array(a) == [t |-> "array", a |-> a]

Card(art, faceArt, colors) ==
  [object |-> "card", art_crop |-> art, face_art_crop |-> faceArt,
   color_identity |-> colors]

Art(query) == Str(<<"a","r","t",":">> \o query)

\* the cards the service knows, by the name the fuzzy search is given
Cards(query) ==
  CASE query = Atraxa  -> { Card(Art(Atraxa), Undef, Array(<<"W","U">>)) }
    [] query = Krenko  -> { Card(Undef, Art(Krenko), Array(<<"R">>)) }
    [] query = Tymna   -> { Card(Undef, Undef, Array(<<"W","B">>)) }
    [] query = Kozilek -> { Card(Art(Kozilek), Undef, Array(<<>>)) }
    [] query = Dina    -> { Card(Art(Dina), Undef, Undef) }
    [] OTHER           -> {}

Responses(query) ==
  {Throws, NotOk, Body(ErrorObject)} \cup { Body(c) : c \in Cards(query) }

\* what fetchOne(name) resolves to when its request is answered by resp
fetchOne(name, resp) ==
  IF resp.kind = "throw" THEN Null
  ELSE IF ~resp.ok THEN Null
  ELSE IF resp.card.object = "error" THEN Null
  ELSE LET card   == resp.card
           img    == Coalesce(card.art_crop, Coalesce(card.face_art_crop, Null))
           colors == Coalesce(card.color_identity, Array(<<>>))
       IN  [name |-> name, img |-> Coalesce(img, Null), colors |-> colors.a]

\* [...new Set(names.filter(Boolean))]: the truthy names, each once, in the
\* order of their first occurrence
RECURSIVE UniqueOf(_, _)
UniqueOf(seen, names) ==
  IF names = <<>> THEN seen
  ELSE LET n == Head(names)
       IN  IF ~Truthy(n) \/ \E k \in 1..Len(seen) : StrictEq(seen[k], n)
           THEN UniqueOf(seen, Tail(names))
           ELSE UniqueOf(Append(seen, n), Tail(names))

\* EffectNames that falls back on the player names when decks is empty
EffectNamesOrPlayers(ds) ==
  IF Len(ds) = 0 THEN [k \in 1..Len(players) |-> players[k].s]
  ELSE LET u == UniqueOf(<<>>, [k \in 1..Len(ds) |-> ds[k].commander])
       IN  [k \in 1..Len(u) |-> u[k].s]

\* the names the effect looks up: none when decks is empty (it returns before
\* anything else), else unique
EffectNames(ds) ==
  IF Len(ds) = 0 THEN <<>>
  ELSE LET u == UniqueOf(<<>>, [k \in 1..Len(ds) |-> ds[k].commander])
       IN  [k \in 1..Len(u) |-> u[k].s]

\* unique.slice(i): all that is left
BatchOfRest(unique, i) == SubSeq(unique, i + 1, Len(unique))

\* unique.slice(i, i + BATCH)
BatchOf(unique, i) ==
  SubSeq(unique, i + 1, IF i + BATCH < Len(unique) THEN i + BATCH ELSE Len(unique))

Range(s) == { s[k] : k \in 1..Len(s) }

\* a promise that has not settled
Pending == [t |-> "pending"]

\* batch.map(fetchOne): one request per name of the batch
Sent(log, names) ==
  [ n \in DOMAIN log \cup names |->
      IF n \in names
      THEN [sent |-> (IF n \in DOMAIN log THEN log[n].sent ELSE 0) + 1, value |-> Pending]
      ELSE log[n] ]

\* the loop of run() at index i: past the end it returns, else it sends the
\* requests of the batch at i and awaits Promise.allSettled
RunFrom(unique, i) ==
  IF i < Len(unique)
  THEN /\ run' = [pc |-> "await", unique |-> unique, i |-> i,
                  pending |-> Range(BatchOf(unique, i)), results |-> NoEntries]
       /\ lookups' = Sent(lookups, Range(BatchOf(unique, i)))
  ELSE /\ run' = [pc |-> "done", unique |-> unique, i |-> i, pending |-> {},
                  results |-> NoEntries]
       /\ lookups' = lookups

\* the [decks] effect, run after the commit that changed decks: on an empty
\* decks (which has no names to look up) it returns, else it calls run()
EnrichEffect ==
  /\ app = "xlsx"
  /\ effectPending
  /\ effectPending' = FALSE
  /\ IF Len(decks) = 0 /\ EffectNames(decks) = <<>>
     THEN UNCHANGED << run, lookups, runs >>
     ELSE /\ runs' = runs + 1
          /\ RunFrom(EffectNames(decks), 0)
  /\ UNCHANGED << app, loading, data, wb, decks, players, sessions, activePlayer,
                  deckSort, showUnplayed, winBar, cardImages, cardColors >>

\* one request of the awaited batch is answered and its fetchOne settles
Settle ==
  /\ run.pc = "await"
  /\ \E name \in run.pending :
       \E resp \in Responses(Query(name)) :
         /\ run' = [run EXCEPT
                      !.pending = @ \ {name},
                      !.results = [n \in DOMAIN @ \cup {name} |->
                                     IF n = name THEN fetchOne(name, resp) ELSE @[n]]]
         /\ lookups' = [lookups EXCEPT ![name].value = fetchOne(name, resp)]
  /\ UNCHANGED << app, loading, data, wb, decks, players, sessions, activePlayer,
                  deckSort, showUnplayed, winBar, cardImages, cardColors,
                  effectPending, runs >>

\* results.filter(r => r.status === 'fulfilled' && r.value).map(r => r.value):
\* fetchOne never rejects, its value is null or a result
Valid(results) == { n \in DOMAIN results : results[n] # Null }

\* Object.fromEntries(valid.filter(v => v.img).map(v => [v.name, v.img]))
NewImages(results) ==
  [ n \in { v \in Valid(results) : Truthy(results[v].img) } |-> results[n].img ]

\* Object.fromEntries(valid.map(v => [v.name, v.colors]))
NewColors(results) == [ n \in Valid(results) |-> results[n].colors ]

\* setCard...(fresh) in place of the merge
Replaced(prev, fresh) == fresh

\* prev => ({ ...prev, ...fresh })
Merged(prev, fresh) ==
  [ n \in DOMAIN prev \cup DOMAIN fresh |->
      IF n \in DOMAIN fresh THEN fresh[n] ELSE prev[n] ]

\* if (Object.keys(fresh).length) setCard...(prev => ({ ...prev, ...fresh }))
CacheAfter(prev, fresh) == IF DOMAIN fresh # {} THEN Merged(prev, fresh) ELSE prev

\* after a batch: stop as soon as one of its lookups failed
AfterBatchStopOnFailure(results, i, n) ==
  IF i + BATCH < n /\ Valid(results) = DOMAIN results THEN "pause" ELSE "done"

\* after a batch: if (i + BATCH < unique.length) await the pause, else the
\* loop ends
AfterBatch(results, i, n) == IF i + BATCH < n THEN "pause" ELSE "done"

\* every promise of the batch has settled: the cache is updated, then the
\* pause starts or run() returns
BatchDone ==
  /\ run.pc = "await"
  /\ run.pending = {}
  /\ cardImages' = CacheAfter(cardImages, NewImages(run.results))
  /\ cardColors' = CacheAfter(cardColors, NewColors(run.results))
  /\ run' = [run EXCEPT !.pc = AfterBatch(run.results, run.i, Len(run.unique))]
  /\ effectPending' =
       (effectPending \/ EffectDeps(FALSE, cardImages' # cardImages \/ cardColors' # cardColors))
  /\ UNCHANGED << app, loading, data, wb, decks, players, sessions, activePlayer,
                  deckSort, showUnplayed, winBar, lookups, runs >>

\* setTimeout(r, 100) fires: i += BATCH and the loop goes on
PauseElapsed ==
  /\ run.pc = "pause"
  /\ RunFrom(run.unique, run.i + BATCH)
  /\ UNCHANGED << app, loading, data, wb, decks, players, sessions, activePlayer,
                  deckSort, showUnplayed, winBar, cardImages, cardColors,
                  effectPending, runs >>

-----------------------------------------------------------------------------
(* The derived views.                                                      *)

\* InsertDesc that puts an index before the indexes of equal key
RECURSIVE InsertDescTiesLast(_, _, _)
InsertDescTiesLast(out, i, key) ==
  IF out = <<>> THEN <<i>>
  ELSE IF key[Head(out)] > key[i]
       THEN <<Head(out)>> \o InsertDescTiesLast(Tail(out), i, key)
  ELSE <<i>> \o out

\* index i put into the index list out, which is ordered by descending key:
\* behind every index whose key is at least key[i] (Array.prototype.sort is
\* stable, the comparator is key(b) - key(a))
RECURSIVE InsertDesc(_, _, _)
InsertDesc(out, i, key) ==
  IF out = <<>> THEN <<i>>
  ELSE IF key[Head(out)] >= key[i] THEN <<Head(out)>> \o InsertDesc(Tail(out), i, key)
  ELSE <<i>> \o out

RECURSIVE SortedIndexes(_, _)
SortedIndexes(n, key) ==
  IF n = 0 THEN <<>> ELSE InsertDesc(SortedIndexes(n - 1, key), n, key)

\* [...s].sort((a, b) => key(b) - key(a)), key[i] the key of s[i]
SortDesc(s, key) ==
  LET idx == SortedIndexes(Len(s), key)
  IN  [i \in 1..Len(s) |-> s[idx[i]]]

\* SortKey whose 'wins' branch compares games
SortKeyWinsByGames(d, sort) ==
  CASE sort = "games"   -> d.games
    [] sort = "wins"    -> d.games
    [] sort = "winrate" -> winRate(d.wins, d.games)
    [] OTHER            -> 0

\* the comparator's key of a deck under the sort selection; 0 for any other
\* selection (return 0)
SortKey(d, sort) ==
  CASE sort = "games"   -> d.games
    [] sort = "wins"    -> d.wins
    [] sort = "winrate" -> winRate(d.wins, d.games)
    [] OTHER            -> 0

\* playerStats that totals every deck for each player
playerStatsAllDecks ==
  [ i \in 1..Len(KnownPlayers) |->
      LET player == KnownPlayers[i]
          pd     == SelectSeq(decks, LAMBDA d : StrictEq(d.player, player))
          games  == SumOf([j \in 1..Len(decks) |-> decks[j].games])
          wins   == SumOf([j \in 1..Len(decks) |-> decks[j].wins])
      IN  IF app = "csv"
          THEN [player |-> player, decks |-> Len(pd), games |-> games, wins |-> wins,
                winRate |-> winRate(wins, games)]
          ELSE [player |-> player, decks |-> Len(pd), games |-> games, wins |-> wins] ]

playerStats ==
  [ i \in 1..Len(KnownPlayers) |->
      LET player == KnownPlayers[i]
          pd     == SelectSeq(decks, LAMBDA d : StrictEq(d.player, player))
          games  == SumOf([j \in 1..Len(pd) |-> pd[j].games])
          wins   == SumOf([j \in 1..Len(pd) |-> pd[j].wins])
      IN  IF app = "csv"
          THEN [player |-> player, decks |-> Len(pd), games |-> games, wins |-> wins,
                winRate |-> winRate(wins, games)]
          ELSE [player |-> player, decks |-> Len(pd), games |-> games, wins |-> wins] ]

filteredDecks ==
  LET byPlayer == IF StrictEq(activePlayer, Str(All)) THEN decks
                  ELSE SelectSeq(decks, LAMBDA d : StrictEq(d.player, activePlayer))
      d        == IF ~showUnplayed THEN SelectSeq(byPlayer, LAMBDA x : x.games > 0)
                  ELSE byPlayer
  IN  SortDesc(d, [i \in 1..Len(d) |-> SortKey(d[i], deckSort)])

\* sorted[0]: undefined for an empty array
First(s) == IF s = <<>> THEN Undef ELSE s[1]

topWinner ==
  First(SortDesc(playerStats, [i \in 1..Len(playerStats) |-> playerStats[i].wins]))

mostActive ==
  First(SortDesc(playerStats, [i \in 1..Len(playerStats) |-> playerStats[i].games]))

\* mostDominant that admits every played deck
mostDominantAnyPlayed ==
  LET d == SelectSeq(decks, LAMBDA x : x.games >= 1)
  IN  IF d = <<>> THEN Null
      ELSE SortDesc(d, [i \in 1..Len(d) |-> winRate(d[i].wins, d[i].games)])[1]

\* part_000 only
mostDominant ==
  LET d == SelectSeq(decks, LAMBDA x : x.games >= 2)
  IN  IF d = <<>> THEN Null
      ELSE SortDesc(d, [i \in 1..Len(d) |-> winRate(d[i].wins, d[i].games)])[1]

\* tally[key] = (tally[key] ?? 0) + w on an object whose entries are kept in
\* insertion order (Object.entries lists string keys in the order they were
\* first set; keys that are canonical array indexes are not drawn)
Bump(tally, key, w) ==
  IF \E k \in 1..Len(tally) : tally[k].key = key
  THEN [k \in 1..Len(tally) |->
          IF tally[k].key = key THEN [key |-> key, count |-> tally[k].count + w]
          ELSE tally[k]]
  ELSE Append(tally, [key |-> key, count |-> w])

\* keys.forEach(t => { tally[t] = (tally[t] ?? 0) + w })
RECURSIVE BumpEach(_, _, _)
BumpEach(tally, keys, w) ==
  IF keys = <<>> THEN tally ELSE BumpEach(Bump(tally, Head(keys), w), Tail(keys), w)

\* Object.entries(tally).sort((a, b) => b[1] - a[1])[0]
TopEntry(tally) ==
  IF tally = <<>> THEN Undef
  ELSE SortDesc(tally, [k \in 1..Len(tally) |-> tally[k].count])[1]

\* a deck's weight without the floor of 1
ColorWeightGames(d) == d.games

\* Math.max(d.games, 1)
ColorWeight(d) == IF d.games > 1 THEN d.games ELSE 1

\* cardColors[d.commander] ?? []
ColorsOf(d) ==
  IF d.commander.s \in DOMAIN cardColors THEN cardColors[d.commander.s] ELSE <<>>

\* decks.forEach(d => { colors.forEach(c => { tally[c] = (tally[c] ?? 0) + Math.max(d.games, 1) }) })
RECURSIVE ColorTally(_, _)
ColorTally(tally, ds) ==
  IF ds = <<>> THEN tally
  ELSE ColorTally(BumpEach(tally, ColorsOf(Head(ds)), ColorWeight(Head(ds))), Tail(ds))

\* COLOR_NAME[code] ?? code
COLOR_NAME(code) ==
  CASE code = "W" -> "White"
    [] code = "U" -> "Blue"
    [] code = "B" -> "Black"
    [] code = "R" -> "Red"
    [] code = "G" -> "Green"
    [] OTHER      -> code

\* part_000 only
mostPlayedColor ==
  LET top == TopEntry(ColorTally(<<>>, decks))
  IN  IF top = Undef THEN Null ELSE [color |-> COLOR_NAME(top.key), count |-> top.count]

\* decks.forEach(d => d.themes.forEach(t => { tally[t] = (tally[t] ?? 0) + 1 }))
RECURSIVE ThemeTally(_, _)
ThemeTally(tally, ds) ==
  IF ds = <<>> THEN tally
  ELSE ThemeTally(BumpEach(tally, Head(ds).themes, 1), Tail(ds))

\* part_000 only
mostPopularTheme ==
  LET top == TopEntry(ThemeTally(<<>>, decks))
  IN  IF top = Undef THEN Null ELSE [theme |-> top.key, count |-> top.count]

-----------------------------------------------------------------------------
(* Specifications.                                                         *)

\* the dashboard: load, then the controls
Next ==
  \/ LoadCSV(AppCsvPayloads)
  \/ LoadXLSX(AppXlsxPayloads)
  \/ LoadFail
  \/ SetActive
  \/ SetSort
  \/ ToggleUnplayed

Spec == Init /\ [][Next]_vars

\* normalize alone, over the rows of CsvRows, DeckRows and GameRows
NextNormalize ==
  \/ LoadCSV(CsvPayloads)
  \/ LoadXLSX(XlsxPayloads)

SpecNormalize == Init /\ [][NextNormalize]_vars

\* winRate alone, over every pair within MaxStat
NextWinRate == WinBar

SpecWinRate == Init /\ [][NextWinRate]_vars

\* the load alone, which ends in the then callback or in the catch callback
NextLoad ==
  \/ LoadCSV(AppCsvPayloads)
  \/ LoadXLSX(AppXlsxPayloads)
  \/ LoadFail

\* the promise chain of the load effect settles: one of its callbacks runs
SpecLoad == Init /\ [][NextLoad]_vars /\ WF_vars(NextLoad)

\* the card lookups of part_000: load, the [decks] effect, run()
NextEnrich ==
  \/ LoadXLSX(EnrichPayloads)
  \/ LoadFail
  \/ EnrichEffect
  \/ Settle
  \/ BatchDone
  \/ PauseElapsed

SpecEnrich == Init /\ [][NextEnrich]_vars

\* the same under the scheduling the run relies on: a scheduled effect runs,
\* a request is answered or fails, the continuation of a settled
\* Promise.allSettled runs, the timer fires
SpecEnrichLive ==
  /\ SpecEnrich
  /\ WF_vars(EnrichEffect)
  /\ WF_vars(Settle)
  /\ WF_vars(BatchDone)
  /\ WF_vars(PauseElapsed)

-----------------------------------------------------------------------------
(* Vocabulary of the properties.                                           *)

\* the deck rows of the loaded source, and the deck a single row is turned into
InputRows == IF app = "csv" THEN data ELSE wb.Decks

DeckOfRow(row) ==
  IF app = "csv" THEN CsvDeck(row)
  ELSE XlsxDeck(row, DeckStatsAfter(<<>>, wb.GamePlayers))

\* rows i and j carry the same deck id
SameId(i, j) == StrictEq(DeckOfRow(InputRows[i]).id, DeckOfRow(InputRows[j]).id)

\* the last row carrying the deck id of row i
LastWithId(i) ==
  CHOOSE j \in 1..Len(InputRows) :
    /\ SameId(i, j)
    /\ \A k \in 1..Len(InputRows) : SameId(i, k) => k <= j

\* the cell holds the total n: the numeral of n in the delimited source, the
\* number n in a spreadsheet cell
Supplies(cell, n) == StrictEq(cell, Str(NatToStr(n))) \/ StrictEq(cell, Num(n))

Totals == 0..10

\* the Game Players rows recorded for the deck id (a string)
GamesOfId(id) ==
  { g \in 1..Len(wb.GamePlayers) :
      /\ ~Nullish(wb.GamePlayers[g].DeckID)
      /\ StrictEq(Str(Trim(ToStr(wb.GamePlayers[g].DeckID))), id) }

RECURSIVE SumOver(_, _)
SumOver(S, f) ==
  IF S = {} THEN 0
  ELSE LET x == CHOOSE y \in S : TRUE IN f[x] + SumOver(S \ {x}, f)

-----------------------------------------------------------------------------
(* C1 *)

\* C1: after normalize the output holds exactly one deck per distinct deck id
\* of the input rows, and that deck is the one built from the last input row
\* carrying the id.
C1_OneDeckPerIdLastRowWins ==
  ~loading =>
    \A i \in 1..Len(InputRows) :
      LET id   == DeckOfRow(InputRows[i]).id
          hits == { k \in 1..Len(decks) : StrictEq(decks[k].id, id) }
      IN  /\ Cardinality(hits) = 1
          /\ \A k \in hits : decks[k] = DeckOfRow(InputRows[LastWithId(i)])

-----------------------------------------------------------------------------
(* C2 *)

\* the output deck that stands for input row i: the deck at the row's own
\* position in the spreadsheet variant; in the delimited variant the deck at
\* the position of the row's DeckID cell among the distinct DeckID cells
FirstWithCell(i) ==
  CHOOSE j \in 1..i :
    /\ StrictEq(data[j].DeckID, data[i].DeckID)
    /\ \A k \in 1..(j - 1) : ~StrictEq(data[k].DeckID, data[i].DeckID)

IsFirstWithCell(j) == FirstWithCell(j) = j

Retained(i) ==
  \A j \in (i + 1)..Len(data) : ~StrictEq(data[j].DeckID, data[i].DeckID)

DeckFor(i) ==
  IF app = "csv"
  THEN decks[Cardinality({ j \in 1..FirstWithCell(i) : IsFirstWithCell(j) })]
  ELSE decks[i]

\* row i has no participation record: always so in the delimited source
NoParticipation(i) ==
  app = "csv" \/ GamesOfId(Str(Trim(ToStr(Coalesce(wb.Decks[i].DeckID, Str(<<>>)))))) = {}

\* the rows whose deck reaches the output: every row of the Decks sheet, the
\* last row of each DeckID cell of the delimited source
OutputRows == { i \in 1..Len(InputRows) : app = "xlsx" \/ Retained(i) }

NoNumber(cell) ==
  \/ Nullish(cell)
  \/ /\ IsStr(cell)
     /\ LET s == TrimStart(cell.s)
        IN  s = <<>> \/ (~IsDigit(Head(s)) /\ Head(s) \notin {"-", "+"})

-----------------------------------------------------------------------------
(* C3 *)

\* C3 as stated: a deck with participation records has games = the number of
\* Game Players rows with its id, wins = those flagged 1, losses = those
\* flagged 0.
C3_JoinConsistency ==
  (app = "xlsx" /\ ~loading) =>
    \A i \in 1..Len(decks) :
      LET rows == GamesOfId(decks[i].id)
      IN  rows # {} =>
            /\ decks[i].games = Cardinality(rows)
            /\ decks[i].wins =
                 Cardinality({ g \in rows : StrictEq(wb.GamePlayers[g].WinFlag, Num(1)) })
            /\ decks[i].losses =
                 Cardinality({ g \in rows : StrictEq(wb.GamePlayers[g].WinFlag, Num(0)) })

-----------------------------------------------------------------------------
(* C4 *)

StatsConsistent(d) ==
  /\ d.games \in Nat /\ d.wins \in Nat /\ d.losses \in Nat
  /\ d.wins + d.losses <= d.games

-----------------------------------------------------------------------------
(* C5 *)

\* C5 as stated: every output deck has id, player and commander that are
\* neither null nor undefined, and games, wins, losses that are numbers.
C5_NoMissingFields ==
  \A i \in 1..Len(decks) :
    /\ ~Nullish(decks[i].id)
    /\ ~Nullish(decks[i].player)
    /\ ~Nullish(decks[i].commander)
    /\ decks[i].games \in Int /\ decks[i].wins \in Int /\ decks[i].losses \in Int

-----------------------------------------------------------------------------
(* C6 *)

Abs(x) == IF x < 0 THEN -x ELSE x

\* C6: winRate is 0 for games = 0 and otherwise an integer nearest to
\* 100 * wins / games (so at most half a point away); for 0 <= wins <= games it
\* lies in 0..100.
C6_WinRateNearest ==
  LET w == winBar.wins
      g == winBar.games
      r == winBar.wr
  IN  /\ g = 0 => r = 0
      /\ g # 0 => 2 * Abs(100 * w - r * g) <= Abs(g)
      /\ (0 <= w /\ w <= g) => r \in 0..100

\* one win in eight games, 12.5 percent, shown as 13
C6_Witness == winBar.wins = 1 /\ winBar.games = 8 /\ winBar.wr = 13

-----------------------------------------------------------------------------
(* C7 *)

\* the decks the selection asks for, in input order
C7_Selected ==
  SelectSeq(decks, LAMBDA d :
    /\ StrictEq(activePlayer, Str(All)) \/ StrictEq(d.player, activePlayer)
    /\ showUnplayed \/ d.games > 0)

C7_Key(d) ==
  CASE deckSort = "games"   -> d.games
    [] deckSort = "wins"    -> d.wins
    [] deckSort = "winrate" -> winRate(d.wins, d.games)

\* C7: filteredDecks holds exactly the decks of the active player (all decks
\* under 'All') that are played or, with the toggle on, all of them; it is
\* ordered by descending key, and decks of equal key keep their input order.
C7_FilterAndSort ==
  LET F == C7_Selected
      R == filteredDecks
  IN  /\ Len(R) = Len(F)
      /\ \A i, j \in 1..Len(R) : i < j => C7_Key(R[i]) >= C7_Key(R[j])
      /\ \A i \in 1..Len(F) :
           SelectSeq(R, LAMBDA d : C7_Key(d) = C7_Key(F[i]))
             = SelectSeq(F, LAMBDA d : C7_Key(d) = C7_Key(F[i]))

\* one player's decks sorted by wins: two different decks tie, an unplayed
\* deck of the player and the decks of other players are left out
C7_Witness ==
  /\ ~loading
  /\ ~StrictEq(activePlayer, Str(All))
  /\ deckSort = "wins"
  /\ ~showUnplayed
  /\ \E i \in 1..(Len(filteredDecks) - 1) :
       /\ filteredDecks[i].wins = filteredDecks[i + 1].wins
       /\ filteredDecks[i] # filteredDecks[i + 1]
  /\ \E k \in 1..Len(decks) :
       StrictEq(decks[k].player, activePlayer) /\ decks[k].games = 0
  /\ Len(filteredDecks) < Len(decks)

-----------------------------------------------------------------------------
(* C8 *)

DecksOf(player) == { k \in 1..Len(decks) : StrictEq(decks[k].player, player) }

\* C8: playerStats has one entry per known player, in player-list order, and
\* each entry counts and totals exactly the decks of that player (0, 0, 0 for
\* a player without decks).
C8_PerPlayerBreakdown ==
  LET ps == playerStats
  IN  /\ Len(ps) = Len(KnownPlayers)
      /\ \A i \in 1..Len(KnownPlayers) :
           LET own == DecksOf(KnownPlayers[i])
           IN  /\ ps[i].player = KnownPlayers[i]
               /\ ps[i].decks = Cardinality(own)
               /\ ps[i].games = SumOver(own, [k \in 1..Len(decks) |-> decks[k].games])
               /\ ps[i].wins = SumOver(own, [k \in 1..Len(decks) |-> decks[k].wins])

\* a player with two played decks, a player with none, and a played deck of
\* somebody else
C8_Witness ==
  LET ps == playerStats
  IN  /\ ~loading
      /\ \E i, j \in 1..Len(ps) :
           /\ ps[i].decks >= 2
           /\ ps[i].wins > 0
           /\ ps[j].decks = 0 /\ ps[j].games = 0 /\ ps[j].wins = 0
           /\ \E k \in 1..Len(decks) :
                k \notin DecksOf(KnownPlayers[i]) /\ decks[k].games > 0 /\ decks[k].wins > 0

-----------------------------------------------------------------------------
(* C9 *)

\* C9: topWinner (mostActive) is the per-player entry with the most wins
\* (games); among entries that tie for the most, the first of the player list.
C9_SuperlativeFirstMax ==
  LET ps == playerStats
  IN  ps # <<>> =>
        /\ \E i \in 1..Len(ps) :
             /\ topWinner = ps[i]
             /\ \A j \in 1..Len(ps) : ps[j].wins <= ps[i].wins
             /\ \A j \in 1..(i - 1) : ps[j].wins < ps[i].wins
        /\ \E i \in 1..Len(ps) :
             /\ mostActive = ps[i]
             /\ \A j \in 1..Len(ps) : ps[j].games <= ps[i].games
             /\ \A j \in 1..(i - 1) : ps[j].games < ps[i].games

\* two players tie for the most wins behind a player with fewer: the earlier
\* of the two is the top winner
C9_Witness ==
  LET ps == playerStats
  IN  /\ ~loading
      /\ \E i, j \in 2..Len(ps) :
           /\ i < j
           /\ ps[i].wins = ps[j].wins
           /\ ps[i].wins > ps[1].wins
           /\ \A k \in 1..Len(ps) : ps[k].wins <= ps[i].wins
           /\ topWinner = ps[i]

-----------------------------------------------------------------------------
(* C10 *)

Qualifying == { k \in 1..Len(decks) : decks[k].games >= 2 }

\* C10: mostDominant is null when no deck has two games, and otherwise a deck
\* with at least two games whose win rate no such deck exceeds.
C10_MostDominant ==
  app = "xlsx" =>
    /\ Qualifying = {} => mostDominant = Null
    /\ Qualifying # {} =>
         \E k \in Qualifying :
           /\ mostDominant = decks[k]
           /\ \A j \in Qualifying :
                winRate(decks[j].wins, decks[j].games) <= winRate(decks[k].wins, decks[k].games)

\* a deck that won its only game is passed over for a deck with two games
\* and a lower win rate
C10_Witness ==
  /\ app = "xlsx"
  /\ ~loading
  /\ \E k \in 1..Len(decks) : decks[k].games = 1 /\ decks[k].wins = 1
  /\ mostDominant # Null
  /\ mostDominant.games >= 2
  /\ winRate(mostDominant.wins, mostDominant.games) < 100

-----------------------------------------------------------------------------
(* C11 *)

\* the tags carried by the decks, and the decks that carry a tag
ThemeTags == UNION { { decks[k].themes[j] : j \in 1..Len(decks[k].themes) } :
                     k \in 1..Len(decks) }

DecksWithTheme(t) ==
  { k \in 1..Len(decks) : \E j \in 1..Len(decks[k].themes) : decks[k].themes[j] = t }

\* C11: mostPopularTheme reports a tag carried by the largest number of decks
\* (every deck counting once for each of its tags, whatever its games),
\* together with that number of decks, and reports nothing when no deck carries
\* a tag.
C11_MostPopularTheme ==
  (app = "xlsx" /\ ~loading) =>
    LET m == mostPopularTheme
    IN  IF ThemeTags = {} THEN m = Null
        ELSE /\ m # Null
             /\ m.theme \in ThemeTags
             /\ m.count = Cardinality(DecksWithTheme(m.theme))
             /\ \A t \in ThemeTags : Cardinality(DecksWithTheme(t)) <= m.count

-----------------------------------------------------------------------------
(* C12 *)

\* the requests sent for a name so far
SentFor(log, n) == IF n \in DOMAIN log THEN log[n].sent ELSE 0

\* the names a step sends a request for
Issued == { n \in DOMAIN lookups' : lookups'[n].sent > SentFor(lookups, n) }

\* C12: at most BATCH = 5 lookups are in flight in any reachable state; a step
\* that sends lookups sends at most 5, and sends them only when no lookup is in
\* flight: at the start of the run, or from the pause that follows a batch
\* whose lookups have all settled.
C12_BoundedConcurrency ==
  /\ [](Cardinality(run.pending) <= BATCH)
  /\ [][ Issued # {} =>
           /\ Cardinality(Issued) <= BATCH
           /\ run.pending = {}
           /\ run.pc # "await"
           /\ run.pc = "pause" =>
                DOMAIN run.results = Range(BatchOf(run.unique, run.i)) ]_vars

\* the second batch is in flight, after a first batch of five
C12_Witness ==
  /\ run.pc = "await"
  /\ run.i = BATCH
  /\ run.pending # {}
  /\ Cardinality(DOMAIN lookups) > BATCH

-----------------------------------------------------------------------------
(* C13 *)

\* the names the run has to look up: the distinct non-empty commander names
RunNames == Range(EffectNames(decks))

\* C13: whichever lookups fail (network error, response not OK, error
\* object), the run is not aborted: no name is sent more than one request, and
\* when the run has ended every distinct commander name has been sent its
\* request, every lookup has settled, every successful result is in the cache
\* (its colors under cardColors, its art, if it has one, under cardImages) and
\* a failed name has no cache entry; under the scheduling of SpecEnrichLive a
\* run that awaits a batch does end.
C13_FailureIsolation ==
  /\ [](\A n \in DOMAIN lookups : lookups[n].sent <= 1)
  /\ [](run.pc = "done" =>
          \A n \in RunNames :
            /\ n \in DOMAIN lookups
            /\ lookups[n].sent = 1
            /\ lookups[n].value # Pending
            /\ lookups[n].value = Null =>
                 (n \notin DOMAIN cardColors /\ n \notin DOMAIN cardImages)
            /\ lookups[n].value # Null =>
                 /\ n \in DOMAIN cardColors
                 /\ cardColors[n] = lookups[n].value.colors
                 /\ IF Truthy(lookups[n].value.img)
                    THEN n \in DOMAIN cardImages /\ cardImages[n] = lookups[n].value.img
                    ELSE n \notin DOMAIN cardImages)
  /\ (run.pc = "await") ~> (run.pc = "done")

\* the run has ended; a lookup of the first batch failed though the service
\* knows the card, and a lookup of the second batch succeeded and is cached
C13_Witness ==
  /\ run.pc = "done"
  /\ Len(run.unique) > BATCH
  /\ \E n \in Range(BatchOf(run.unique, 0)) :
       Cards(Query(n)) # {} /\ lookups[n].value = Null
  /\ \E n \in Range(BatchOf(run.unique, BATCH)) : n \in DOMAIN cardColors

-----------------------------------------------------------------------------
(* C14 *)

\* C14: when fetching or decoding the source fails, the step that handles the
\* failure leaves loading false and decks, players and sessions empty; once
\* loading is false it stays false and the three collections no longer change,
\* so the failed load ends in the empty dataset; and in every run, failing or
\* not, loading becomes false.
C14_SourceUnreadable ==
  /\ [][ LoadFail =>
           (~loading' /\ decks' = <<>> /\ players' = <<>> /\ sessions' = <<>>) ]_vars
  /\ [][ ~loading =>
           (~loading' /\ decks' = decks /\ players' = players /\ sessions' = sessions) ]_vars
  /\ <>(~loading)

\* the load has failed: loading is false and nothing was fetched or stored
C14_Witness ==
  /\ ~loading
  /\ data = <<>> /\ wb = EmptyWorkbook
  /\ decks = <<>> /\ players = <<>> /\ sessions = <<>>

-----------------------------------------------------------------------------
(* C15 *)

\* C15: no lookup is sent while the deck list is empty: in every state in
\* which a request has been sent or is in flight the deck list holds at least
\* one deck, and every step that sends requests starts from such a state.
C15_NoLookupBeforeData ==
  /\ []((DOMAIN lookups # {} \/ run.pending # {}) => Len(decks) > 0)
  /\ [][ Issued # {} => (~loading /\ Len(decks) > 0) ]_vars

\* the first batch of a loaded deck list is in flight
C15_Witness ==
  /\ ~loading
  /\ Len(decks) > 0
  /\ run.pc = "await" /\ run.i = 0
  /\ run.pending = Range(BatchOf(run.unique, 0))

-----------------------------------------------------------------------------
(* C16 *)

\* the names of the batch the run awaits
BatchNames == Range(BatchOf(run.unique, run.i))

\* a step from cache to cache' removes no entry, adds entries of the awaited
\* batch only, and leaves the entries of all other names as they are
GrowsWithinBatch(cache, cacheAfter) ==
  /\ DOMAIN cache \subseteq DOMAIN cacheAfter
  /\ DOMAIN cacheAfter \ DOMAIN cache \subseteq BatchNames
  /\ \A n \in DOMAIN cache \ BatchNames : cacheAfter[n] = cache[n]

\* C16: cardImages and cardColors only grow: every step keeps every entry,
\* adds or overwrites only entries of names looked up in the batch that has
\* just completed, and leaves the entries of all other names unchanged.
C16_CacheMonotonicMerge ==
  [][ GrowsWithinBatch(cardImages, cardImages') /\
      GrowsWithinBatch(cardColors, cardColors') ]_vars

\* the second batch has been merged into a cache that holds results of the
\* first
C16_Witness ==
  /\ run.pc = "done"
  /\ \E n \in Range(BatchOf(run.unique, 0)) :
       n \in DOMAIN cardColors /\ n \in DOMAIN cardImages
  /\ \E n \in Range(BatchOf(run.unique, BATCH)) :
       n \in DOMAIN cardColors /\ n \in DOMAIN cardImages

-----------------------------------------------------------------------------
(* C17 *)

\* the color codes known for the commander of deck k
CodesOf(k) == Range(ColorsOf(decks[k]))

ColorCodes == UNION { CodesOf(k) : k \in 1..Len(decks) }

\* the tally of a code: max(games, 1) of every deck whose commander has it
TallyOf(c) ==
  SumOver({ k \in 1..Len(decks) : c \in CodesOf(k) },
          [k \in 1..Len(decks) |-> IF decks[k].games > 1 THEN decks[k].games ELSE 1])

\* C17: mostPlayedColor reports nothing when no deck's commander has a known
\* color code; otherwise it reports the name of a code whose tally is the
\* highest, with that tally, where every deck adds max(games, 1) to the tally
\* of every code known for its commander (a deck without games adds 1).
C17_MostPlayedColor ==
  (app = "xlsx" /\ ~loading) =>
    LET m == mostPlayedColor
    IN  IF ColorCodes = {} THEN m = Null
        ELSE /\ m # Null
             /\ \A c \in ColorCodes : TallyOf(c) <= m.count
             /\ \E c \in ColorCodes : m.color = COLOR_NAME(c) /\ TallyOf(c) = m.count

\* a color is reported whose tally counts a deck without games with weight 1
\* next to a deck with several games
C17_Witness ==
  /\ app = "xlsx" /\ ~loading
  /\ mostPlayedColor # Null
  /\ \E k \in 1..Len(decks) : \E c \in CodesOf(k) :
       /\ decks[k].games = 0
       /\ COLOR_NAME(c) = mostPlayedColor.color
       /\ \E j \in 1..Len(decks) : c \in CodesOf(j) /\ decks[j].games > 1

-----------------------------------------------------------------------------
(* C18 *)

\* C18: after normalize the per-player breakdown conserves the totals: the
\* games, the wins and the deck counts of the playerStats entries add up to
\* the games and the wins of all decks and to the number of decks.
C18_Conservation ==
  ~loading =>
    LET ps == playerStats
    IN  /\ SumOf([i \in 1..Len(ps) |-> ps[i].games]) =
             SumOf([k \in 1..Len(decks) |-> decks[k].games])
        /\ SumOf([i \in 1..Len(ps) |-> ps[i].wins]) =
             SumOf([k \in 1..Len(decks) |-> decks[k].wins])
        /\ SumOf([i \in 1..Len(ps) |-> ps[i].decks]) = Len(decks)

-----------------------------------------------------------------------------
(* C19 *)

\* C19: the lookups run once per loaded deck list: run() is called at most
\* once and no name is sent a second request; a step that changes cardImages
\* or cardColors neither schedules the effect, nor calls run(), nor sends a
\* request; the effect is scheduled only by the step that stores the loaded
\* deck list, and run() is called only by the effect so scheduled; when the
\* run has ended, the names that were sent a request are exactly the distinct
\* non-empty commander names of the decks, each sent one request.
C19_OneRunPerDeckSet ==
  /\ [](runs <= 1)
  /\ [](\A n \in DOMAIN lookups : lookups[n].sent = 1 /\ n \in RunNames)
  /\ []((run.pc = "done" /\ ~effectPending) => DOMAIN lookups = RunNames)
  /\ [][ (cardImages' # cardImages \/ cardColors' # cardColors) =>
           (effectPending' = effectPending /\ runs' = runs /\ Issued = {}) ]_vars
  /\ [][ (effectPending' /\ ~effectPending) =>
           (loading /\ ~loading' /\ decks' = parseXLSX(wb').decks) ]_vars
  /\ [][ runs' # runs => (effectPending /\ ~effectPending' /\ decks' = decks) ]_vars

\* a run of two batches has ended, both batches have written the cache, and
\* there was one call of run() and one request per name
C19_Witness ==
  /\ run.pc = "done" /\ ~effectPending
  /\ runs = 1
  /\ Len(run.unique) > BATCH
  /\ DOMAIN cardColors \cap Range(BatchOf(run.unique, 0)) # {}
  /\ DOMAIN cardColors \cap Range(BatchOf(run.unique, BATCH)) # {}
  /\ \A n \in Range(run.unique) : lookups[n].sent = 1
====
